---- MODULE Spec2Model ----
(***************************************************************************)
(* waybar-pomodoro: the Pomodoro timer state machine of src/main.rs, its   *)
(* scheduler thread, the primary input loop, the command channel and the   *)
(* persisted state record.                                                 *)
(*                                                                         *)
(* Time.  An Instant is an integer number of clock ticks; one second is    *)
(* TicksPerSec ticks, so Duration::as_secs truncates as in the code.       *)
(* Options.  None is the empty sequence and Some(x) the sequence <<x>>.    *)
(* Strings.  "{:02}:{:02}" is modelled by the pair <<minutes, seconds>>.   *)
(***************************************************************************)
EXTENDS Integers, Sequences, FiniteSets, TLC

\* ------------------------------------------------------------- bounds
\* Clock resolution: ticks per second (the code's Instant is finer).
TicksPerSec == 2
\* The clock of the fine-grained specifications stops at MaxNow ticks.
MaxNow == 8
\* Lines that may be pending in the command channel.
MaxFifo == 1
\* Words that may be held by command_queue.
MaxQueue == 1
\* The clock of the long-run specification SpecCycle stops after this many
\* Focus lengths.
MaxFocusLengths == 8

\* ------------------------------------------------- program constants
POMODORO_DURATION == 25 * 60
SHORT_BREAK_DURATION == 5 * 60
LONG_BREAK_DURATION == 30 * 60
POMODOROS_PER_LONG_BREAK == 4

\* ------------------------------------------------------------ options
None == <<>>
Some(x) == <<x>>
unwrap(o) == o[1]
is_none(o) == o = <<>>
is_some(o) == o # <<>>

\* --------------------------------------------------------------- time
\* Duration::as_secs: whole seconds of a duration given in ticks.
as_secs(d) == d \div TicksPerSec
\* Duration::from_secs.
from_secs(s) == s * TicksPerSec
\* Instant::duration_since: saturates to zero when `earlier` is later.
duration_since(later, earlier) == IF later >= earlier THEN later - earlier ELSE 0

\* format!("{:02}:{:02}", s / 60, s % 60)
fmt(s) == <<s \div 60, s % 60>>
\* The JSON object printed by current_pomodoro.
status_json(elapsed, remaining) == [elapsed_time |-> fmt(elapsed), text |-> fmt(remaining)]

\* ------------------------------------------------------- Pomodoro (main.rs)
new ==
    [ start_time |-> None, end_time |-> None, total_time |-> POMODORO_DURATION,
      is_running |-> FALSE, elapsed_time |-> 0, pomodoros_completed |-> 0 ]

\* start() unwraps end_time when start_time is Some.
start_panics(self) ==
    ~self.is_running /\ is_some(self.start_time) /\ is_none(self.end_time)

start_restarts(self, t) ==
    IF ~self.is_running
    THEN [self EXCEPT !.start_time = Some(t),
                      !.end_time = Some(t + from_secs(self.total_time)),
                      !.elapsed_time = 0,
                      !.is_running = TRUE]
    ELSE self

start(self, t) ==
    IF ~self.is_running
    THEN IF is_none(self.start_time)
         THEN [self EXCEPT !.start_time = Some(t),
                           !.end_time = Some(t + from_secs(self.total_time)),
                           !.is_running = TRUE]
         ELSE [self EXCEPT !.end_time = Some(t + duration_since(unwrap(self.end_time),
                                                               unwrap(self.start_time))),
                           !.start_time = Some(t),
                           !.is_running = TRUE]
    ELSE self

\* pause() unwraps start_time when running.
pause_panics(self) == self.is_running /\ is_none(self.start_time)

pause_clears_start(self, t) ==
    IF self.is_running
    THEN [self EXCEPT !.elapsed_time =
                          self.elapsed_time + as_secs(duration_since(t, unwrap(self.start_time))),
                      !.start_time = None,
                      !.is_running = FALSE]
    ELSE self

pause_no_commit(self, t) ==
    IF self.is_running THEN [self EXCEPT !.is_running = FALSE] ELSE self

pause(self, t) ==
    IF self.is_running
    THEN [self EXCEPT !.elapsed_time =
                          self.elapsed_time + as_secs(duration_since(t, unwrap(self.start_time))),
                      !.is_running = FALSE]
    ELSE self

toggle_panics(self) == IF self.is_running THEN pause_panics(self) ELSE start_panics(self)

\* The "toggle" arm of the scheduler loop.
toggle(self, t) == IF self.is_running THEN pause(self, t) ELSE start(self, t)

setup_timer(self, break_duration) ==
    [self EXCEPT !.total_time = break_duration, !.elapsed_time = 0,
                 !.is_running = FALSE, !.start_time = None, !.end_time = None]

\* The live elapsed time computed at the head of current_pomodoro.
live_elapsed(self, t) ==
    IF self.is_running
    THEN self.elapsed_time + as_secs(duration_since(t, unwrap(self.start_time)))
    ELSE self.elapsed_time

\* current_pomodoro unwraps start_time when running.
current_pomodoro_panics(self) == self.is_running /\ is_none(self.start_time)

\* The break kind chosen from pomodoros_completed.
break_type(self) ==
    IF self.pomodoros_completed = POMODOROS_PER_LONG_BREAK THEN "Long" ELSE "Short"

is_break(self) ==
    self.total_time = LONG_BREAK_DURATION \/ self.total_time = SHORT_BREAK_DURATION

\* The event kind of the phase a timer state is in.
phase_event(self) ==
    IF self.total_time = SHORT_BREAK_DURATION THEN "ShortBreak"
    ELSE IF self.total_time = LONG_BREAK_DURATION THEN "LongBreak"
    ELSE "Pomodoro"

boundary_keeps_count(self) ==
    IF is_break(self)
    THEN IF self.is_running
         THEN [self |-> setup_timer(self, POMODORO_DURATION),
               events |-> <<"Pomodoro">>, setups |-> 1]
         ELSE [self |-> self, events |-> <<>>, setups |-> 0]
    ELSE IF break_type(self) = "Long"
         THEN [self |-> setup_timer(self, LONG_BREAK_DURATION),
               events |-> <<"LongBreak">>, setups |-> 1]
         ELSE [self |-> setup_timer([self EXCEPT !.pomodoros_completed =
                                                     self.pomodoros_completed + 1],
                                    SHORT_BREAK_DURATION),
               events |-> <<"ShortBreak">>, setups |-> 1]

boundary_notifies_completed(self) ==
    IF is_break(self)
    THEN IF self.is_running
         THEN [self |-> setup_timer(self, POMODORO_DURATION),
               events |-> <<phase_event(self)>>, setups |-> 1]
         ELSE [self |-> self, events |-> <<>>, setups |-> 0]
    ELSE IF break_type(self) = "Long"
         THEN [self |-> setup_timer([self EXCEPT !.pomodoros_completed = 0],
                                    LONG_BREAK_DURATION),
               events |-> <<phase_event(self)>>, setups |-> 1]
         ELSE [self |-> setup_timer([self EXCEPT !.pomodoros_completed =
                                                     self.pomodoros_completed + 1],
                                    SHORT_BREAK_DURATION),
               events |-> <<phase_event(self)>>, setups |-> 1]

\* The branch of current_pomodoro taken when elapsed_time > self.total_time:
\* the new state, the events sent and the number of setup_timer calls.
boundary(self) ==
    IF is_break(self)
    THEN IF self.is_running
         THEN [self |-> setup_timer(self, POMODORO_DURATION),
               events |-> <<"Pomodoro">>, setups |-> 1]
         ELSE [self |-> self, events |-> <<>>, setups |-> 0]
    ELSE IF break_type(self) = "Long"
         THEN [self |-> setup_timer([self EXCEPT !.pomodoros_completed = 0],
                                    LONG_BREAK_DURATION),
               events |-> <<"LongBreak">>, setups |-> 1]
         ELSE [self |-> setup_timer([self EXCEPT !.pomodoros_completed =
                                                     self.pomodoros_completed + 1],
                                    SHORT_BREAK_DURATION),
               events |-> <<"ShortBreak">>, setups |-> 1]

\* current_pomodoro: the state it leaves, the string it returns, the
\* notifications it sends and the setup_timer calls it makes.
current_pomodoro(self, t) ==
    LET elapsed_time == live_elapsed(self, t) IN
    IF elapsed_time > self.total_time
    THEN LET b == boundary(self) IN
         [self |-> b.self, out |-> status_json(0, b.self.total_time),
          events |-> b.events, setups |-> b.setups]
    ELSE [self |-> self, out |-> status_json(elapsed_time, self.total_time - elapsed_time),
          events |-> <<>>, setups |-> 0]

\* ---------------------------------------------- Pomodoro (pomodoro.rs)
\* start, pause, setup_timer, load_pomodoro_state and save_state of
\* pomodoro.rs are those of main.rs; its status computation is not.
get_elapsed_time(self, t) ==
    IF self.is_running
    THEN self.elapsed_time + as_secs(duration_since(t, unwrap(self.start_time)))
    ELSE self.elapsed_time

get_total_time_and_break_type(self) ==
    IF self.pomodoros_completed = POMODOROS_PER_LONG_BREAK
    THEN [total_time |-> LONG_BREAK_DURATION, break_type |-> "Long"]
    ELSE [total_time |-> SHORT_BREAK_DURATION, break_type |-> "Short"]

\* total_time is the value of get_total_time_and_break_type, not self.total_time.
handle_elapsed_time_over_total_time(self, total_time, kind) ==
    LET b == IF total_time = LONG_BREAK_DURATION \/ total_time = SHORT_BREAK_DURATION
             THEN IF self.is_running
                  THEN [self |-> setup_timer(self, POMODORO_DURATION),
                        events |-> <<"Pomodoro">>, setups |-> 1]
                  ELSE [self |-> self, events |-> <<>>, setups |-> 0]
             ELSE IF kind = "Long"
                  THEN [self |-> setup_timer([self EXCEPT !.pomodoros_completed = 0],
                                             LONG_BREAK_DURATION),
                        events |-> <<"LongBreak">>, setups |-> 1]
                  ELSE [self |-> setup_timer([self EXCEPT !.pomodoros_completed =
                                                              self.pomodoros_completed + 1],
                                             SHORT_BREAK_DURATION),
                        events |-> <<"ShortBreak">>, setups |-> 1]
    IN [self |-> b.self, out |-> status_json(0, total_time),
        events |-> b.events, setups |-> b.setups]

handle_remaining_time(total_time, elapsed_time) ==
    status_json(elapsed_time, total_time - elapsed_time)

pomodoro_rs_mixed_totals(self, t) ==
    LET elapsed_time == get_elapsed_time(self, t)
        tb == get_total_time_and_break_type(self)
    IN IF elapsed_time > self.total_time
       THEN handle_elapsed_time_over_total_time(self, tb.total_time, tb.break_type)
       ELSE [self |-> self, out |-> handle_remaining_time(tb.total_time, elapsed_time),
             events |-> <<>>, setups |-> 0]

\* current_pomodoro of pomodoro.rs.
pomodoro_rs_current_pomodoro(self, t) ==
    LET elapsed_time == get_elapsed_time(self, t)
        tb == get_total_time_and_break_type(self)
    IN IF elapsed_time > tb.total_time
       THEN handle_elapsed_time_over_total_time(self, tb.total_time, tb.break_type)
       ELSE [self |-> self, out |-> handle_remaining_time(tb.total_time, elapsed_time),
             events |-> <<>>, setups |-> 0]

\* ------------------------------------------------------ persistence
\* The JSON object written at shutdown: every key holds Some(value), or None
\* for null.  start_time is the age of the instant, end_time the time left.
save_state(self, t) ==
    [ start_time |-> IF is_some(self.start_time)
                     THEN Some(as_secs(duration_since(t, unwrap(self.start_time))))
                     ELSE None,
      end_time |-> IF is_some(self.end_time)
                   THEN Some(as_secs(duration_since(unwrap(self.end_time), t)))
                   ELSE None,
      total_time |-> Some(self.total_time),
      is_running |-> Some(self.is_running),
      elapsed_time |-> Some(self.elapsed_time),
      pomodoros_completed |-> Some(self.pomodoros_completed) ]

\* Option::unwrap_or
unwrap_or(o, default) == IF is_some(o) THEN unwrap(o) ELSE default

load_state_absolute(file, t) ==
    IF is_none(file) THEN new
    ELSE LET state == unwrap(file) IN
         [ start_time |-> IF is_some(state.start_time) THEN Some(t) ELSE None,
           end_time |-> IF is_some(state.end_time)
                        THEN Some(t + from_secs(unwrap(state.end_time))) ELSE None,
           total_time |-> unwrap_or(state.total_time, POMODORO_DURATION),
           is_running |-> unwrap_or(state.is_running, FALSE),
           elapsed_time |-> unwrap_or(state.elapsed_time, 0),
           pomodoros_completed |-> unwrap_or(state.pomodoros_completed, 0) ]

\* The state main() builds at start-up: Pomodoro::new(), overwritten from the
\* state file when it can be opened (file is None when it cannot).
load_state(file, t) ==
    IF is_none(file) THEN new
    ELSE LET state == unwrap(file) IN
         [ start_time |-> IF is_some(state.start_time)
                          THEN Some(t - from_secs(unwrap(state.start_time))) ELSE None,
           end_time |-> IF is_some(state.end_time)
                        THEN Some(t + from_secs(unwrap(state.end_time))) ELSE None,
           total_time |-> unwrap_or(state.total_time, POMODORO_DURATION),
           is_running |-> unwrap_or(state.is_running, FALSE),
           elapsed_time |-> unwrap_or(state.elapsed_time, 0),
           pomodoros_completed |-> unwrap_or(state.pomodoros_completed, 0) ]

\* ---------------------------------------------------- command words
\* Words an external producer writes to the channel, one per line.
Words == {"start", "pause", "Toggle", "stop", "foo"}
\* str::to_lowercase (after trim) on those words.
to_lowercase(w) == IF w = "Toggle" THEN "toggle" ELSE w
\* The words the primary input loop accepts.
ValidCommands == {"start", "pause", "toggle", "stop"}

RECURSIVE valid_lines(_)
\* The lines of the channel the primary input loop pushes, in order.
valid_lines(lines) ==
    IF lines = <<>> THEN <<>>
    ELSE LET cmd == to_lowercase(Head(lines)) IN
         (IF cmd \in ValidCommands THEN <<cmd>> ELSE <<>>) \o valid_lines(Tail(lines))

\* ---------------------------------------------------------------- state
VARIABLES
    pomodoro,       \* the Pomodoro behind Arc<Mutex<_>>
    now,            \* Instant::now(), in ticks
    channel,        \* what FIFO_PATH names: "none", "fifo" (mkfifo), "fifo_eof" (a
                    \* FIFO whose writer has gone and whose lines main took) or "file"
    fifo,           \* the lines written to the channel and not yet read
    command_queue,  \* the Vec behind Arc<Mutex<_>> the input loop pushes to
    timer_thread,   \* where the spawned scheduler thread is
    main_thread,    \* where the main thread is
    state_file,     \* STATE_PATH: None, or Some(the JSON object)
    printed,        \* the last status line printed, None before the first
    notified,       \* the events sent by the last current_pomodoro call
    setups,         \* the setup_timer calls made by the last current_pomodoro call
    ran,            \* the timer has been running since the last status line
    seg,            \* Focus segments this run completed since its start or its last Long Break
    saved,          \* at shutdown: when the record was written, and the status then
    mutex,          \* who holds the lock of the Pomodoro: "free", "timer" or "main"
    iter_command,   \* the scheduler loop's local `command` of this iteration
    before,         \* the Pomodoro as it was when this iteration read its command
    lost_ticks      \* ticks the timer was running in this phase that its pauses
                    \* left out of elapsed_time

\* What the stepwise specification keeps of the scheduler thread between its
\* steps.  The actions that take a whole statement of the loop in one step
\* hold these only within the step and leave them as they are.
steps == <<mutex, iter_command, before, lost_ticks>>

vars == <<pomodoro, now, channel, fifo, command_queue, timer_thread, main_thread,
          state_file, printed, notified, setups, ran, seg, saved, steps>>

\* The process is alive: main has neither returned nor panicked.
alive == main_thread \notin {"exited", "aborted"}

\* A state file the program itself writes: a timer paused two seconds before
\* the end of its phase, resumed, and stopped one second later.
stopped_record(total, completed) ==
    [ start_time |-> Some(1), end_time |-> Some(total - 1), total_time |-> Some(total),
      is_running |-> Some(TRUE), elapsed_time |-> Some(total - 2),
      pomodoros_completed |-> Some(completed) ]

\* The state files the fine-grained specification starts from.
InitialFiles ==
    {None} \cup
    { Some(stopped_record(POMODORO_DURATION, c)) : c \in {0, POMODOROS_PER_LONG_BREAK} } \cup
    { Some(stopped_record(SHORT_BREAK_DURATION, 1)),
      Some(stopped_record(LONG_BREAK_DURATION, 0)) }

\* main() up to the state load: lines 149-166.
InitFrom(files) ==
    /\ now = 0
    /\ state_file \in files
    /\ pomodoro = load_state(state_file, now)
    /\ channel = "none"
    /\ fifo = <<>>
    /\ command_queue = <<>>
    /\ timer_thread = "unspawned"
    /\ main_thread = "boot"
    /\ printed = None
    /\ notified = <<>>
    /\ setups = 0
    /\ ran = FALSE
    /\ seg = 0
    /\ saved = None
    /\ mutex = "free"
    /\ iter_command = ""
    /\ before = new
    /\ lost_ticks = 0

Init == InitFrom(InitialFiles)

\* A call of current_pomodoro under the lock, and what it leaves behind.
Status ==
    LET r == current_pomodoro(pomodoro, now)
        completes_focus == live_elapsed(pomodoro, now) > pomodoro.total_time
                           /\ ~is_break(pomodoro)
    IN /\ pomodoro' = r.self
       /\ printed' = Some(r.out)
       /\ notified' = r.events
       /\ setups' = r.setups
       /\ ran' = r.self.is_running
       /\ seg' = IF completes_focus
                 THEN IF r.self.total_time = LONG_BREAK_DURATION THEN 0 ELSE seg + 1
                 ELSE seg

\* ---------------------------------------------------------- main thread
\* Lines 168-175: create the FIFO if nothing is at its path, print the first
\* status, spawn the scheduler thread.
Boot ==
    /\ main_thread = "boot"
    /\ mutex = "free"
    /\ channel' = IF channel = "none" THEN "fifo" ELSE channel
    /\ IF current_pomodoro_panics(pomodoro)
       THEN /\ main_thread' = "aborted"
            /\ UNCHANGED <<pomodoro, printed, notified, setups, ran, seg, timer_thread>>
       ELSE /\ Status
            /\ main_thread' = "open"
            /\ timer_thread' = "command"
    /\ saved' = None
    /\ UNCHANGED <<now, fifo, command_queue, state_file>>
    /\ UNCHANGED steps

\* Lines 195-201: open FIFO_PATH for non-blocking reads; the unwrap panics
\* when the scheduler thread has already removed it.  A regular file at the
\* path is read to its end here (lines 203-210) without consuming it.
OpenFifo ==
    /\ main_thread = "open"
    /\ IF channel = "none"
       THEN /\ main_thread' = "aborted"
            /\ UNCHANGED command_queue
       ELSE IF channel \in {"fifo", "fifo_eof"}
            THEN /\ main_thread' = "lines"
                 /\ UNCHANGED command_queue
            ELSE /\ Len(command_queue) + Len(valid_lines(fifo)) <= MaxQueue
                 /\ command_queue' = command_queue \o valid_lines(fifo)
                 /\ main_thread' = "join"
    /\ UNCHANGED <<pomodoro, now, channel, fifo, timer_thread, state_file,
                   printed, notified, setups, ran, seg, saved>>
    /\ UNCHANGED steps

\* Lines 203-210: the lines available in the pipe are read, lower-cased and
\* pushed when valid.
ReadLines ==
    /\ main_thread = "lines"
    /\ channel \in {"fifo", "fifo_eof"}
    /\ fifo # <<>>
    /\ Len(command_queue) + Len(valid_lines(fifo)) <= MaxQueue
    /\ command_queue' = command_queue \o valid_lines(fifo)
    /\ fifo' = <<>>
    /\ channel' = "fifo_eof"
    /\ UNCHANGED <<pomodoro, now, timer_thread, main_thread, state_file,
                   printed, notified, setups, ran, seg, saved>>
    /\ UNCHANGED steps

\* The lines() iterator ends: the pipe is empty with no writer, or unlinked.
EndOfInput ==
    /\ main_thread = "lines"
    /\ (channel \notin {"fifo", "fifo_eof"} \/ fifo = <<>>)
    /\ main_thread' = "join"
    /\ UNCHANGED <<pomodoro, now, channel, fifo, command_queue, timer_thread,
                   state_file, printed, notified, setups, ran, seg, saved>>
    /\ UNCHANGED steps

\* Line 212: timer_thread.join().unwrap() returns once the thread has ended,
\* and panics when the thread panicked.
Join ==
    /\ main_thread = "join"
    /\ timer_thread \in {"done", "panicked"}
    /\ main_thread' = IF timer_thread = "done" THEN "save" ELSE "aborted"
    /\ UNCHANGED <<pomodoro, now, channel, fifo, command_queue, timer_thread,
                   state_file, printed, notified, setups, ran, seg, saved>>
    /\ UNCHANGED steps

\* Lines 214-225: write the state file; main returns.
SaveState ==
    /\ main_thread = "save"
    /\ mutex = "free"
    /\ state_file' = Some(save_state(pomodoro, now))
    /\ saved' = Some([at |-> now, out |-> current_pomodoro(pomodoro, now).out])
    /\ main_thread' = "exited"
    /\ UNCHANGED <<pomodoro, now, channel, fifo, command_queue, timer_thread,
                   printed, notified, setups, ran, seg>>
    /\ UNCHANGED steps

\* The program is run again: lines 149-166 of the new process.
Restart ==
    /\ ~alive
    /\ pomodoro' = load_state(state_file, now)
    /\ command_queue' = <<>>
    /\ timer_thread' = "unspawned"
    /\ main_thread' = "boot"
    /\ printed' = None
    /\ notified' = <<>>
    /\ setups' = 0
    /\ ran' = FALSE
    /\ seg' = 0
    /\ UNCHANGED <<now, channel, fifo, state_file, saved>>
    /\ UNCHANGED steps

\* ----------------------------------------------------- scheduler thread
\* read_command: the first line of the channel, trimmed and lower-cased, or
\* the empty string when the path cannot be opened or holds no line; the
\* path is removed after a successful open, and what else the reader had
\* buffered is dropped with it.  (File::open of a FIFO returns only once a
\* writer has opened it: see the guard of ApplyCommand.)
read_command ==
    IF channel = "none" \/ fifo = <<>> THEN "" ELSE to_lowercase(Head(fifo))

\* The match of lines 177-190 on the timer state.
apply_panics(command, self) ==
    CASE command = "start" -> start_panics(self)
      [] command = "pause" -> pause_panics(self)
      [] command = "toggle" -> toggle_panics(self)
      [] OTHER -> FALSE

apply_unknown_starts(command, self, t) ==
    CASE command = "pause" -> pause(self, t)
      [] command = "toggle" -> toggle(self, t)
      [] OTHER -> start(self, t)

\* The match of lines 177-190 on the timer state.
apply(command, self, t) ==
    CASE command = "start" -> start(self, t)
      [] command = "pause" -> pause(self, t)
      [] command = "toggle" -> toggle(self, t)
      [] OTHER -> self

\* Lines 176-190: read one command and apply it under the lock.  The open
\* in read_command blocks on a FIFO no producer has written to yet.
ApplyCommand ==
    /\ alive
    /\ timer_thread = "command"
    /\ channel = "fifo" => fifo # <<>>
    /\ channel' = "none"
    /\ fifo' = <<>>
    /\ LET command == read_command IN
       IF command = "stop"
       THEN /\ timer_thread' = "done"
            /\ UNCHANGED <<pomodoro, ran>>
       ELSE IF apply_panics(command, pomodoro)
            THEN /\ timer_thread' = "panicked"
                 /\ UNCHANGED <<pomodoro, ran>>
            ELSE /\ pomodoro' = apply(command, pomodoro, now)
                 /\ ran' = (ran \/ pomodoro'.is_running)
                 /\ timer_thread' = "status"
    /\ UNCHANGED <<now, command_queue, main_thread, state_file, printed, notified,
                   setups, seg, saved>>
    /\ UNCHANGED steps

\* Line 191: print the status.
PrintStatus ==
    /\ alive
    /\ timer_thread = "status"
    /\ IF current_pomodoro_panics(pomodoro)
       THEN /\ timer_thread' = "panicked"
            /\ UNCHANGED <<pomodoro, printed, notified, setups, ran, seg>>
       ELSE /\ Status
            /\ timer_thread' = "sleep"
    /\ UNCHANGED <<now, channel, fifo, command_queue, main_thread, state_file, saved>>
    /\ UNCHANGED steps

\* Line 192: thread::sleep(1 s).  Statements take no time in this model: the
\* clock moves here, by a duration drawn from `durations` and within `horizon`.
Sleep(durations, horizon) ==
    /\ alive
    /\ timer_thread = "sleep"
    /\ \E d \in durations :
          /\ now + d <= horizon
          /\ now' = now + d
    /\ timer_thread' = "command"
    /\ UNCHANGED <<pomodoro, channel, fifo, command_queue, main_thread, state_file,
                   printed, notified, setups, ran, seg, saved>>
    /\ UNCHANGED steps

\* ------------------------------------- scheduler thread, step by step
\* The same loop with every lock() and every part of a toggle and of a phase
\* transition as a step of its own.
\* Line 176: let command = read_command(FIFO_PATH); "stop" breaks.
ReadCommand ==
    /\ alive
    /\ timer_thread = "command"
    /\ channel = "fifo" => fifo # <<>>
    /\ channel' = "none"
    /\ fifo' = <<>>
    /\ iter_command' = read_command
    /\ before' = pomodoro
    /\ timer_thread' = IF read_command = "stop" THEN "done" ELSE "apply"
    /\ UNCHANGED <<pomodoro, now, command_queue, main_thread, state_file, printed,
                   notified, setups, ran, seg, saved, mutex, lost_ticks>>

\* Lines 178, 179, 181: pomodoro_clone.lock().unwrap() of the arms that change
\* the timer.
LockApply ==
    /\ alive
    /\ timer_thread = "apply"
    /\ iter_command \in {"start", "pause", "toggle"}
    /\ mutex = "free"
    /\ mutex' = "timer"
    /\ timer_thread' = "locked"
    /\ UNCHANGED <<pomodoro, now, channel, fifo, command_queue, main_thread, state_file,
                   printed, notified, setups, ran, seg, saved, iter_command, before,
                   lost_ticks>>

\* Line 189: the arm `_ => {}`, taken without the lock.
SkipCommand ==
    /\ alive
    /\ timer_thread = "apply"
    /\ iter_command \notin {"start", "pause", "toggle"}
    /\ pomodoro' = apply(iter_command, pomodoro, now)
    /\ timer_thread' = "status"
    /\ UNCHANGED <<now, channel, fifo, command_queue, main_thread, state_file, printed,
                   notified, setups, ran, seg, saved, steps>>

\* Line 182: `if pomodoro.is_running` of the toggle arm, under the lock.
ToggleBranch ==
    /\ alive
    /\ timer_thread = "locked"
    /\ iter_command = "toggle"
    /\ timer_thread' = IF pomodoro.is_running THEN "toggle_pause" ELSE "toggle_start"
    /\ UNCHANGED <<pomodoro, now, channel, fifo, command_queue, main_thread, state_file,
                   printed, notified, setups, ran, seg, saved, steps>>

\* The call the scheduler thread is about to make under the lock.
selected ==
    CASE timer_thread = "toggle_pause" -> "pause"
      [] timer_thread = "toggle_start" -> "start"
      [] OTHER -> iter_command

\* The ticks a timer state has been running since it was last started.
live_ticks(self, t) ==
    IF self.is_running THEN duration_since(t, unwrap(self.start_time)) ELSE 0

\* Lines 178, 179, 183-186: start() or pause() under the lock; the guard is
\* dropped at the end of the arm, and by the unwinding when the call panics.
ApplyHeld ==
    /\ alive
    /\ \/ timer_thread = "locked" /\ iter_command \in {"start", "pause"}
       \/ timer_thread \in {"toggle_pause", "toggle_start"}
    /\ IF apply_panics(selected, pomodoro)
       THEN /\ timer_thread' = "panicked"
            /\ UNCHANGED <<pomodoro, ran, lost_ticks>>
       ELSE /\ pomodoro' = apply(selected, pomodoro, now)
            /\ ran' = (ran \/ pomodoro'.is_running)
            /\ lost_ticks' = IF pomodoro.is_running /\ ~pomodoro'.is_running
                             THEN lost_ticks + live_ticks(pomodoro, now)
                                    - from_secs(pomodoro'.elapsed_time - pomodoro.elapsed_time)
                             ELSE lost_ticks
            /\ timer_thread' = "status"
    /\ mutex' = "free"
    /\ UNCHANGED <<now, channel, fifo, command_queue, main_thread, state_file, printed,
                   notified, setups, seg, saved, iter_command, before>>

\* Line 191: pomodoro_clone.lock().unwrap() of the status line.
LockStatus ==
    /\ alive
    /\ timer_thread = "status"
    /\ mutex = "free"
    /\ mutex' = "timer"
    /\ timer_thread' = "computing"
    /\ UNCHANGED <<pomodoro, now, channel, fifo, command_queue, main_thread, state_file,
                   printed, notified, setups, ran, seg, saved, iter_command, before,
                   lost_ticks>>

CountStep_unlocked ==
    /\ alive
    /\ timer_thread = "computing"
    /\ ~current_pomodoro_panics(pomodoro)
    /\ live_elapsed(pomodoro, now) > pomodoro.total_time
    /\ ~is_break(pomodoro)
    /\ IF break_type(pomodoro) = "Long"
       THEN /\ pomodoro' = [pomodoro EXCEPT !.pomodoros_completed = 0]
            /\ timer_thread' = "counted_long"
       ELSE /\ pomodoro' = [pomodoro EXCEPT !.pomodoros_completed =
                                                pomodoro.pomodoros_completed + 1]
            /\ timer_thread' = "counted_short"
    /\ mutex' = "free"
    /\ UNCHANGED <<now, channel, fifo, command_queue, main_thread, state_file, printed,
                   notified, setups, ran, seg, saved, iter_command, before, lost_ticks>>

\* Lines 115 and 119: the write of pomodoros_completed when a Focus segment
\* is over, before setup_timer writes the other fields.
CountStep ==
    /\ alive
    /\ timer_thread = "computing"
    /\ ~current_pomodoro_panics(pomodoro)
    /\ live_elapsed(pomodoro, now) > pomodoro.total_time
    /\ ~is_break(pomodoro)
    /\ IF break_type(pomodoro) = "Long"
       THEN /\ pomodoro' = [pomodoro EXCEPT !.pomodoros_completed = 0]
            /\ timer_thread' = "counted_long"
       ELSE /\ pomodoro' = [pomodoro EXCEPT !.pomodoros_completed =
                                                pomodoro.pomodoros_completed + 1]
            /\ timer_thread' = "counted_short"
    /\ UNCHANGED <<now, channel, fifo, command_queue, main_thread, state_file, printed,
                   notified, setups, ran, seg, saved, steps>>

rest_of_call_stale == current_pomodoro(before, now)

\* What the rest of the call leaves: the state, the line, the events sent
\* and the setup_timer calls.
rest_of_call ==
    CASE timer_thread = "counted_long" ->
             [self |-> setup_timer(pomodoro, LONG_BREAK_DURATION),
              out |-> status_json(0, LONG_BREAK_DURATION),
              events |-> <<"LongBreak">>, setups |-> 1]
      [] timer_thread = "counted_short" ->
             [self |-> setup_timer(pomodoro, SHORT_BREAK_DURATION),
              out |-> status_json(0, SHORT_BREAK_DURATION),
              events |-> <<"ShortBreak">>, setups |-> 1]
      [] OTHER -> current_pomodoro(pomodoro, now)

\* Lines 89-145 and 191: the rest of current_pomodoro under the lock, the
\* println of what it returns, and the drop of the guard.
PrintHeld ==
    /\ alive
    /\ \/ timer_thread \in {"counted_long", "counted_short"}
       \/ /\ timer_thread = "computing"
          /\ ~(live_elapsed(pomodoro, now) > pomodoro.total_time /\ ~is_break(pomodoro))
    /\ IF timer_thread = "computing" /\ current_pomodoro_panics(pomodoro)
       THEN /\ timer_thread' = "panicked"
            /\ UNCHANGED <<pomodoro, printed, notified, setups, ran, seg, lost_ticks>>
       ELSE /\ pomodoro' = rest_of_call.self
            /\ printed' = Some(rest_of_call.out)
            /\ notified' = rest_of_call.events
            /\ setups' = rest_of_call.setups
            /\ ran' = rest_of_call.self.is_running
            /\ seg' = CASE timer_thread = "counted_long" -> 0
                        [] timer_thread = "counted_short" -> seg + 1
                        [] OTHER -> seg
            /\ lost_ticks' = IF rest_of_call.setups = 1 THEN 0 ELSE lost_ticks
            /\ timer_thread' = "sleep"
    /\ mutex' = "free"
    /\ UNCHANGED <<now, channel, fifo, command_queue, main_thread, state_file, saved,
                   iter_command, before>>

\* ----------------------------------------------------------- environment
\* An external producer writes one word and a newline to FIFO_PATH, creating
\* a regular file when nothing is there.  A write that arrives while the
\* scheduler thread is between its read and the end of its sleep is taken at
\* the end of the sleep: no step of the program in between tells the two
\* apart.
Write(w) ==
    /\ timer_thread \in {"unspawned", "command", "done", "panicked"}
    /\ Len(fifo) < MaxFifo
    /\ fifo' = Append(fifo, w)
    /\ channel' = IF channel = "none" THEN "file" ELSE channel
    /\ UNCHANGED <<pomodoro, now, command_queue, timer_thread, main_thread, state_file,
                   printed, notified, setups, ran, seg, saved>>
    /\ UNCHANGED steps

\* Time passes while the program is not running.
Downtime ==
    /\ ~alive
    /\ now < MaxNow
    /\ now' = now + 1
    /\ UNCHANGED <<pomodoro, channel, fifo, command_queue, timer_thread, main_thread,
                   state_file, printed, notified, setups, ran, seg, saved>>
    /\ UNCHANGED steps

\* --------------------------------------------------------- specifications
MainThread == Boot \/ OpenFifo \/ ReadLines \/ EndOfInput \/ Join \/ SaveState

\* One second, or one second and a tick of scheduling delay.
SleepTicks == {from_secs(1), from_secs(1) + 1}

TimerThread == ApplyCommand \/ PrintStatus \/ Sleep(SleepTicks, MaxNow)

Producer == \E w \in Words : Write(w)

Next == MainThread \/ TimerThread \/ Producer \/ Downtime \/ Restart

\* The program, run and run again, from a state file of InitialFiles.
Spec == Init /\ [][Next]_vars

InitFresh == InitFrom({None})

\* The program, run and run again, from no state file.
SpecFresh == InitFresh /\ [][Next]_vars

\* Sleeps that outlast a phase: the thread is delayed, or it idles through
\* status lines that change nothing.
CycleSleeps == { from_secs(SHORT_BREAK_DURATION + 1), from_secs(POMODORO_DURATION + 1) }

CycleHorizon == MaxFocusLengths * from_secs(POMODORO_DURATION + 1)

\* The main thread spawns the scheduler thread and is not scheduled again.
NextCycle ==
    Boot \/ ApplyCommand \/ PrintStatus \/ Sleep(CycleSleeps, CycleHorizon) \/ Producer

\* The keys of the state file.
Keys == {"start_time", "end_time", "total_time", "is_running", "elapsed_time",
         "pomodoros_completed"}

\* A state file with the keys of `absent` missing.
without(state, absent) == [k \in Keys |-> IF k \in absent THEN None ELSE state[k]]

\* State files that lack any subset of the keys.
PartialFiles ==
    { Some(without(stopped_record(SHORT_BREAK_DURATION, 1), absent)) : absent \in SUBSET Keys }

InitPartial == InitFrom(PartialFiles)

NextRun == MainThread \/ TimerThread \/ Producer

\* One run of the program from a state file that lacks some keys.
SpecLoad == InitPartial /\ [][NextRun]_vars

\* One run of the program from a fresh state, through whole phases.
SpecCycle == InitFresh /\ [][NextCycle]_vars

\* State files of any content: every key holds a value of its type.
AnyFiles ==
    { Some([ start_time |-> st, end_time |-> et, total_time |-> Some(tt),
             is_running |-> Some(r), elapsed_time |-> Some(e),
             pomodoros_completed |-> Some(c) ]) :
        st \in {None, Some(0), Some(1)}, et \in {None, Some(0)},
        tt \in {0, 7, SHORT_BREAK_DURATION, POMODORO_DURATION, LONG_BREAK_DURATION},
        r \in BOOLEAN,
        e \in {0, 7, SHORT_BREAK_DURATION, SHORT_BREAK_DURATION + 1, POMODORO_DURATION,
               LONG_BREAK_DURATION + 1},
        c \in {0, POMODOROS_PER_LONG_BREAK, POMODOROS_PER_LONG_BREAK + 1} }

InitAny == InitFrom(AnyFiles \cup {None})

\* The main thread spawns the scheduler thread and is not scheduled again.
NextAny == Boot \/ TimerThread \/ Producer

\* One run of the program from a state file of any content.
SpecAny == InitAny /\ [][NextAny]_vars

TimerSteps ==
    \/ ReadCommand \/ LockApply \/ SkipCommand \/ ToggleBranch \/ ApplyHeld
    \/ LockStatus \/ CountStep \/ PrintHeld \/ Sleep(SleepTicks, MaxNow)

NextSteps == MainThread \/ TimerSteps \/ Producer

\* One run of the program, the scheduler thread taken step by step.
SpecSteps == Init /\ [][NextSteps]_vars

\* ------------------------------------------------------------- claims
\* A step that calls current_pomodoro: the status line of the loop, or the
\* first one printed by main.
StatusCall == PrintStatus \/ (Boot /\ main_thread' = "open")

\* The call finds the live elapsed time greater than total_time.
Over == live_elapsed(pomodoro, now) > pomodoro.total_time

\* C1: the break entered on completing the 4th Focus segment since start or
\* since the last Long Break is a Long Break entered with pomodoros_completed
\* = 0, and the breaks entered on completing the 1st, 2nd and 3rd are Short.
C1_FourthFocusEntersLongBreak ==
    [][ (StatusCall /\ Over /\ ~is_break(pomodoro)) =>
          /\ (seg + 1 = POMODOROS_PER_LONG_BREAK =>
                /\ pomodoro'.total_time = LONG_BREAK_DURATION
                /\ pomodoro'.pomodoros_completed = 0)
          /\ (seg + 1 < POMODOROS_PER_LONG_BREAK =>
                pomodoro'.total_time = SHORT_BREAK_DURATION) ]_vars

\* C2: a status call that finds the live elapsed time greater than total_time
\* during a break, running or paused, leaves a fresh Focus phase with
\* pomodoros_completed unchanged.
C2_BreakOverEntersFocus ==
    [][ (StatusCall /\ Over /\ is_break(pomodoro)) =>
          pomodoro' = [ start_time |-> None, end_time |-> None,
                        total_time |-> POMODORO_DURATION, is_running |-> FALSE,
                        elapsed_time |-> 0,
                        pomodoros_completed |-> pomodoro.pomodoros_completed ] ]_vars

\* C3: a status call that finds live elapsed > total_time sends exactly one
\* notification and calls setup_timer exactly once, and a call made at once
\* afterwards reports 00:00 elapsed and the whole new phase remaining; a call
\* that finds live elapsed <= total_time sends nothing and sets nothing up.
C3_OneNotificationPerCrossing ==
    [][ StatusCall =>
          IF Over
          THEN /\ Len(notified') = 1
               /\ setups' = 1
               /\ current_pomodoro(pomodoro', now').out
                    = status_json(0, pomodoro'.total_time)
          ELSE /\ notified' = <<>>
               /\ setups' = 0 ]_vars

\* C4 as stated: the event sent on crossing a boundary is that of the phase
\* the timer was in before the call.
C4_EventOfCompletedPhase ==
    [][ (StatusCall /\ notified' # <<>>) => notified' = <<phase_event(pomodoro)>> ]_vars

\* C4 amended: the event sent on crossing a boundary is that of the phase
\* just entered: Pomodoro when a break ends, ShortBreak or LongBreak when a
\* Focus segment ends.  (total_time changes only in the call that notifies.)
C4_EventOfEnteredPhase ==
    notified # <<>> => notified = <<phase_event(pomodoro)>>

\* A Focus segment has just ended in a Long Break, and a LongBreak event was sent.
C4_Witness ==
    /\ timer_thread = "sleep"
    /\ notified = <<"LongBreak">>
    /\ pomodoro.total_time = LONG_BREAK_DURATION
    /\ setups = 1

\* The seconds a printed "MM:SS" pair stands for.
seconds_of(mmss) == mmss[1] * 60 + mmss[2]

\* C5: while no phase boundary is crossed, the elapsed time of a status line
\* is never less than that of the line before it, and it is the same when
\* the timer was paused all the time between the two.
C5_ElapsedMonotoneAndFrozen ==
    [][ (PrintStatus /\ ~Over /\ is_some(printed)) =>
          /\ seconds_of(unwrap(printed').elapsed_time)
               >= seconds_of(unwrap(printed).elapsed_time)
          /\ (~ran => unwrap(printed').elapsed_time = unwrap(printed).elapsed_time) ]_vars

\* A status line printed for a timer started from a fresh state and paused
\* since before the line before: the pause that committed its running time
\* came over a second ago.
C5_Witness ==
    /\ timer_thread = "sleep"
    /\ ~pomodoro.is_running
    /\ is_some(pomodoro.start_time)
    /\ pomodoro.elapsed_time > 0
    /\ pomodoro.elapsed_time < pomodoro.total_time - 2
    /\ now - unwrap(pomodoro.start_time) >= from_secs(pomodoro.elapsed_time + 2)
    /\ unwrap(printed).elapsed_time = fmt(pomodoro.elapsed_time)
    /\ ~ran

\* C6: in a running state, pause() followed at once by start() leaves the
\* remaining time that status() reports, total_time and pomodoros_completed
\* as they were.
C6_PauseStartKeepsRemaining ==
    (alive /\ pomodoro.is_running) =>
        LET resumed == start(pause(pomodoro, now), now) IN
        /\ current_pomodoro(resumed, now).out.text = current_pomodoro(pomodoro, now).out.text
        /\ resumed.total_time = pomodoro.total_time
        /\ resumed.pomodoros_completed = pomodoro.pomodoros_completed

\* A running timer, started from a fresh state and resumed after a pause,
\* whose current segment is over a second old and ends between two whole
\* seconds.
C6_Witness ==
    /\ alive
    /\ pomodoro.is_running
    /\ pomodoro.elapsed_time > 0
    /\ pomodoro.elapsed_time < pomodoro.total_time - 2
    /\ now - unwrap(pomodoro.start_time) > from_secs(1)
    /\ (now - unwrap(pomodoro.start_time)) % TicksPerSec # 0
    /\ live_elapsed(pomodoro, now) <= pomodoro.total_time

\* C7: the state loaded from the record a state was saved to has, at load
\* time, the status string the saved state had at save time, however long
\* the program was down: for the record written at shutdown, and for the
\* record any reachable state would write.
C7_SaveLoadKeepsStatus ==
    /\ (main_thread = "boot" /\ is_some(saved)) =>
           current_pomodoro(pomodoro, now).out = unwrap(saved).out
    /\ alive =>
           \A d \in {0, 1, from_secs(MaxNow)} :
               current_pomodoro(load_state(Some(save_state(pomodoro, now)), now + d),
                                now + d).out
                 = current_pomodoro(pomodoro, now).out

\* A running timer loaded, after downtime, from the record of a timer that
\* was stopped more than a second into its running segment.
C7_Witness ==
    /\ main_thread = "boot"
    /\ is_some(saved)
    /\ now > unwrap(saved).at + from_secs(1)
    /\ pomodoro.is_running
    /\ now - unwrap(pomodoro.start_time) >= from_secs(2)
    /\ pomodoro.elapsed_time > 0

\* C9: the record written after a stop holds is_running = false.
C9_StopPausesBeforeSave ==
    (main_thread = "exited" /\ is_some(saved)) =>
        unwrap(state_file).is_running = Some(FALSE)

\* C10: every command pushed into command_queue is removed by the scheduler
\* loop and applied; none is left in the queue when the program has ended.
C10_PushedCommandsConsumed ==
    main_thread = "exited" => command_queue = <<>>

\* C8: loading a record that lacks some keys sets each missing field to its
\* fresh-state value, and nothing that follows makes the program panic: not
\* the first status line, not a command, not a later status line.
C8_PartialRecordNeverPanics ==
    /\ (main_thread = "boot" /\ is_some(state_file)) =>
           \A k \in Keys : is_none(unwrap(state_file)[k]) => pomodoro[k] = new[k]
    /\ timer_thread # "panicked"
    /\ ~(main_thread = "aborted" /\ timer_thread = "unspawned")

\* C11: a word other than start, pause, toggle and stop that the scheduler
\* loop has read leaves every field of the timer state as it was and does
\* not end the loop, which goes on to the status line of the iteration.
C11_UnknownWordChangesNothing ==
    [][ SkipCommand => /\ pomodoro' = pomodoro
                       /\ timer_thread' = "status" ]_vars

\* The loop is back at its read, a later command pending, after an iteration
\* that read foo while the timer was running and printed its status.
C11_Witness ==
    /\ timer_thread = "command"
    /\ iter_command = "foo"
    /\ before.is_running
    /\ pomodoro = before
    /\ is_some(printed)
    /\ fifo = <<"pause">>

\* C12: the state a status call leaves has its live elapsed time within
\* total_time at the instant of the call, in every phase, running or paused.
C12_StatusLeavesElapsedWithinTotal ==
    [][ StatusCall => live_elapsed(pomodoro', now') <= pomodoro'.total_time ]_vars

\* C13: whenever the timer is running, end_time is the instant at which the
\* live elapsed time reaches total_time: after a resume it is now plus what
\* was left of total_time at the pause.
C13_DeadlineHonoursRemaining ==
    (alive /\ pomodoro.is_running /\ is_some(pomodoro.end_time)) =>
        unwrap(pomodoro.end_time)
          = unwrap(pomodoro.start_time)
              + from_secs(pomodoro.total_time - pomodoro.elapsed_time)

\* C14 as stated: start_time is Some only if is_running is true.
C14_StartTimeOnlyWhileRunning ==
    is_some(pomodoro.start_time) => pomodoro.is_running

\* C14 amended: start_time is Some from the first start of a phase until the
\* phase ends, paused or not: a running timer has it, and it is None, with
\* end_time, only in a phase not yet started, where nothing has elapsed.
C14_StartTimeOnceStarted ==
    /\ pomodoro.is_running => is_some(pomodoro.start_time)
    /\ is_none(pomodoro.start_time) <=> is_none(pomodoro.end_time)
    /\ is_none(pomodoro.start_time) => pomodoro.elapsed_time = 0

\* A status line has been printed for a timer paused after a start: its
\* start_time is still there.
C14_Witness ==
    /\ timer_thread = "sleep"
    /\ ~pomodoro.is_running
    /\ is_some(pomodoro.start_time)
    /\ pomodoro.elapsed_time > 0
    /\ unwrap(printed).elapsed_time = fmt(pomodoro.elapsed_time)

\* C15: the subtraction total_time - elapsed of the status computation is
\* made only with elapsed <= total_time for the two values it takes, so the
\* remaining time it prints is never below zero: in main.rs and in
\* pomodoro.rs, for every state a record can load and every clock value.
C15_SubtractionNeverUnderflows ==
    ~current_pomodoro_panics(pomodoro) =>
        \A d \in {0, 1, from_secs(1), from_secs(POMODORO_DURATION)} :
            /\ seconds_of(current_pomodoro(pomodoro, now + d).out.text) >= 0
            /\ seconds_of(pomodoro_rs_current_pomodoro(pomodoro, now + d).out.text) >= 0

\* A status line has been printed for a paused break whose elapsed_time, as
\* loaded, is greater than total_time and than both break lengths.
C15_Witness ==
    /\ timer_thread = "sleep"
    /\ ~pomodoro.is_running
    /\ pomodoro.total_time = SHORT_BREAK_DURATION
    /\ pomodoro.elapsed_time = LONG_BREAK_DURATION + 1
    /\ printed = Some(status_json(0, SHORT_BREAK_DURATION))

\* The ticks the timer has truly been running in its phase: what elapsed_time
\* holds, what the pauses left out of it, and the running segment.
true_run_ticks == from_secs(pomodoro.elapsed_time) + lost_ticks + live_ticks(pomodoro, now)

\* C16: within a phase, the elapsed seconds of a status line are less than
\* one second short of the time the timer has truly been running, whatever
\* the number of pauses and resumes.
C16_NoDriftAcrossPauses ==
    (timer_thread = "sleep" /\ setups = 0
       /\ live_elapsed(pomodoro, now) <= pomodoro.total_time) =>
        /\ from_secs(seconds_of(unwrap(printed).elapsed_time)) <= true_run_ticks
        /\ true_run_ticks < from_secs(seconds_of(unwrap(printed).elapsed_time) + 1)

\* C17: from a fresh state pomodoros_completed stays within 0..4 and is the
\* number of Focus segments completed since the last Long Break began, or
\* since the start.
C17_CounterCountsFocusSegments ==
    /\ pomodoro.pomodoros_completed \in 0..POMODOROS_PER_LONG_BREAK
    /\ pomodoro.pomodoros_completed = seg

\* The Focus segment after the one that took the counter to 4 has been
\* started.
C17_Witness ==
    /\ pomodoro.pomodoros_completed = POMODOROS_PER_LONG_BREAK
    /\ seg = POMODOROS_PER_LONG_BREAK
    /\ pomodoro.total_time = POMODORO_DURATION
    /\ pomodoro.is_running

C19_TransitionsWithinOneHold ==
    /\ timer_thread \in {"locked", "toggle_pause", "toggle_start", "computing",
                         "counted_long", "counted_short"} => mutex = "timer"
    /\ timer_thread = "toggle_pause" => pomodoro.is_running
    /\ timer_thread = "toggle_start" => ~pomodoro.is_running
    /\ (mutex = "free" /\ timer_thread \in {"apply", "status", "sleep", "done"}
          /\ pomodoro.pomodoros_completed # before.pomodoros_completed) =>
           /\ pomodoro.total_time # before.total_time
           /\ pomodoro.elapsed_time = 0
           /\ ~pomodoro.is_running
           /\ is_none(pomodoro.start_time)
           /\ is_none(pomodoro.end_time)

\* The thread has written pomodoros_completed for a Focus segment that is
\* over and has not called setup_timer yet: it holds the mutex.
C19_Witness ==
    /\ timer_thread = "counted_short"
    /\ mutex = "timer"
    /\ pomodoro.pomodoros_completed = before.pomodoros_completed + 1
    /\ pomodoro.total_time = POMODORO_DURATION
    /\ pomodoro.is_running

\* C20: from the same state and at the same clock value, current_pomodoro of
\* pomodoro.rs and current_pomodoro of main.rs return the same status, send
\* the same events and leave the same state.
C20_BothCurrentPomodorosAgree ==
    ~current_pomodoro_panics(pomodoro) =>
        pomodoro_rs_current_pomodoro(pomodoro, now) = current_pomodoro(pomodoro, now)

====
